---- MODULE Spec2Model ----
(***************************************************************************)
(* Persistence and file-storage layer of the research article manager:     *)
(* the SQLite tables (Article, the six entity tables, the six junction     *)
(* tables, IdCounter, UserSettings), the articles:* IPC handlers, and the  *)
(* files:* handlers that place PDFs and notes on disk.                     *)
(***************************************************************************)
EXTENDS Integers, Sequences, FiniteSets, TLC

VARIABLES db, fs, clock, returned, last, calls

vars == <<db, fs, clock, returned, last, calls>>

(***************************************************************************)
(* Bounds of the model.                                                    *)
(***************************************************************************)
\* highest counter value from which articles:create is still explored
MaxId == 2
\* number of handler calls explored in one run
MaxClock == 3
\* a store failure can be injected at the first MaxFault write statements
MaxFault == 2

(***************************************************************************)
(* Strings are sequences of one-character strings.                         *)
(***************************************************************************)
DigitChars == <<"0", "1", "2", "3", "4", "5", "6", "7", "8", "9">>

IsDigit(c) == \E i \in 1..10 : DigitChars[i] = c

DigitValue(c) == (CHOOSE i \in 1..10 : DigitChars[i] = c) - 1

RECURSIVE NumberToString(_)
NumberToString(n) ==
  IF n < 10 THEN <<DigitChars[n + 1]>>
  ELSE NumberToString(n \div 10) \o <<DigitChars[(n % 10) + 1]>>

RECURSIVE padStart(_, _, _)
padStart(s, width, c) ==
  IF Len(s) >= width THEN s ELSE padStart(<<c>> \o s, width, c)

\* value of the leading decimal digits of s; -1 stands for NaN
RECURSIVE parseIntFrom(_, _)
parseIntFrom(s, acc) ==
  IF s = <<>> \/ ~IsDigit(Head(s)) THEN acc
  ELSE parseIntFrom(Tail(s), (IF acc < 0 THEN 0 ELSE acc) * 10 + DigitValue(Head(s)))

parseInt(s) == parseIntFrom(s, -1)

\* SQLite CAST(text AS INTEGER): leading digits, 0 when there are none
castInteger(s) == IF parseInt(s) < 0 THEN 0 ELSE parseInt(s)

RECURSIVE trimStart(_)
trimStart(s) ==
  IF s # <<>> /\ Head(s) = " " THEN trimStart(Tail(s)) ELSE s

RECURSIVE trimEnd(_)
trimEnd(s) ==
  IF s # <<>> /\ s[Len(s)] = " " THEN trimEnd(SubSeq(s, 1, Len(s) - 1)) ELSE s

trim(s) == trimEnd(trimStart(s))

substring(s, from, to) ==
  SubSeq(s, from + 1, IF to > Len(s) THEN Len(s) ELSE to)

Range(s) == {s[i] : i \in DOMAIN s}

(***************************************************************************)
(* Schema.                                                                 *)
(***************************************************************************)
\* the six entity kinds, named by the payload field that carries them
Kinds == {"authors", "keywords", "subjects", "tags", "universities", "companies"}

EntityTable ==
  [authors |-> "Author", keywords |-> "Keyword", subjects |-> "Subject",
   tags |-> "Tag", universities |-> "University", companies |-> "Company"]

ScalarFields == {"title", "abstract", "journal", "read"}

UNDEFINED == "undefined"

NULL == "NULL"

\* Article maps an id to its row, Entity[k] lists the names of kind k (the
\* AUTOINCREMENT id of a name is its position), Junction[k] holds the pairs
\* <<articleId, entityId>>, IdCounter and UserSettings hold their rows.
\* the database right after CREATE TABLE IF NOT EXISTS on an empty file
EmptyDb ==
  [Article      |-> <<>>,
   Entity       |-> [k \in Kinds |-> <<>>],
   Junction     |-> [k \in Kinds |-> {}],
   IdCounter    |-> <<>>,
   UserSettings |-> <<>>]

ArticleIds(d) == DOMAIN d.Article

(***************************************************************************)
(* A transaction of better-sqlite3: the body runs statement by statement   *)
(* on a working copy; when a statement throws, the copy is discarded.      *)
(* tx.fault = n > 0 makes the n-th write statement fail (disk full, I/O    *)
(* error), tx.threw records that the body has thrown.                      *)
(***************************************************************************)
Begin(d, fault) ==
  [db |-> d, writes |-> 0, fault |-> fault, threw |-> FALSE, error |-> ""]

IoError == "SqliteError: disk I/O error"

ConstraintError == "SqliteError: constraint failed"

Throw(tx, error) == [tx EXCEPT !.threw = TRUE, !.error = error]

\* a write statement that would leave the working copy as newDb;
\* tx.writes counts the statements that have taken effect
Exec(tx, newDb) ==
  IF tx.threw THEN tx
  ELSE IF tx.writes + 1 = tx.fault THEN Throw(tx, IoError)
  ELSE [tx EXCEPT !.db = newDb, !.writes = tx.writes + 1]

\* a write statement that violates a constraint
Violate(tx) ==
  IF tx.threw THEN tx
  ELSE IF tx.writes + 1 = tx.fault THEN Throw(tx, IoError)
  ELSE Throw(tx, ConstraintError)

\* a transaction that keeps the statements executed before the throw
CommitPartial(d, tx) == tx.db

Commit(d, tx) == IF tx.threw THEN d ELSE tx.db

(***************************************************************************)
(* database.ts helpers.                                                    *)
(***************************************************************************)
IndexOf(seq, x) == CHOOSE i \in DOMAIN seq : seq[i] = x

\* an INSERT without the SELECT, so that a known name gets a second row
getOrCreateEntityAlwaysInserting(tx, k, name) ==
  IF tx.threw THEN [tx |-> tx, id |-> 0]
  ELSE [tx |-> Exec(tx, [tx.db EXCEPT !.Entity[k] = Append(@, name)]),
        id |-> Len(tx.db.Entity[k]) + 1]

\* SELECT by name, INSERT when absent; returns the transaction and the id
getOrCreateEntity(tx, k, name) ==
  IF tx.threw THEN [tx |-> tx, id |-> 0]
  ELSE IF \E i \in DOMAIN tx.db.Entity[k] : tx.db.Entity[k][i] = name
       THEN [tx |-> tx, id |-> IndexOf(tx.db.Entity[k], name)]
       ELSE [tx |-> Exec(tx, [tx.db EXCEPT !.Entity[k] = Append(@, name)]),
             id |-> Len(tx.db.Entity[k]) + 1]

\* foreign keys left unenforced, as without the foreign_keys pragma
foreignKeysUnenforced(d, k, articleId, entityId) == TRUE

\* the two FOREIGN KEY clauses of a junction table, under foreign_keys = ON
foreignKeysHold(d, k, articleId, entityId) ==
  articleId \in ArticleIds(d) /\ entityId \in DOMAIN d.Entity[k]

\* a plain INSERT: a pair that is already linked violates the primary key
linkArticleEntityWithoutIgnore(tx, k, articleId, entityId) ==
  IF tx.threw THEN tx
  ELSE IF <<articleId, entityId>> \in tx.db.Junction[k] THEN Violate(tx)
  ELSE IF ~foreignKeysHold(tx.db, k, articleId, entityId) THEN Violate(tx)
  ELSE Exec(tx, [tx.db EXCEPT !.Junction[k] = @ \cup {<<articleId, entityId>>}])

\* getOrCreateEntity statement by statement, for callers that hold their own
\* connection: a call is idle, or has run its SELECT without a hit
\* ("selected"), or has returned an id ("done"), or has thrown ("failed")
Callers == {"app", "import"}

IdleCall == [pc |-> "idle", kind |-> "", name |-> "", id |-> 0]

NoCalls == [c \in Callers |-> IdleCall]

\* SELECT id, name FROM table WHERE name = ?
selectEntity(d, k, name) ==
  IF \E i \in DOMAIN d.Entity[k] : d.Entity[k][i] = name
  THEN IndexOf(d.Entity[k], name) ELSE 0

\* the SELECT of one caller; a hit returns at once
EntitySelect(c, k, name) ==
  /\ calls[c].pc = "idle"
  /\ clock < MaxClock
  /\ clock' = clock + 1
  /\ calls' = [calls EXCEPT ![c] =
                 IF selectEntity(db, k, name) # 0
                 THEN [pc |-> "done", kind |-> k, name |-> name,
                       id |-> selectEntity(db, k, name)]
                 ELSE [pc |-> "selected", kind |-> k, name |-> name, id |-> 0]]
  /\ UNCHANGED <<db, fs, returned, last>>

\* the INSERT of one caller, against name TEXT UNIQUE NOT NULL
EntityInsert(c) ==
  /\ calls[c].pc = "selected"
  /\ LET k == calls[c].kind
         name == calls[c].name
     IN  IF selectEntity(db, k, name) # 0
         THEN /\ db' = db
              /\ calls' = [calls EXCEPT ![c].pc = "failed"]
         ELSE /\ db' = [db EXCEPT !.Entity[k] = Append(@, name)]
              /\ calls' = [calls EXCEPT ![c].pc = "done",
                                        ![c].id = Len(db.Entity[k]) + 1]
  /\ UNCHANGED <<fs, clock, returned, last>>

\* the caller goes on to its next name
EntityReturn(c) ==
  /\ calls[c].pc \in {"done", "failed"}
  /\ clock < MaxClock
  /\ calls' = [calls EXCEPT ![c] = IdleCall]
  /\ UNCHANGED <<db, fs, clock, returned, last>>

\* INSERT OR IGNORE into the junction table, under foreign_keys = ON
linkArticleEntity(tx, k, articleId, entityId) ==
  IF tx.threw THEN tx
  ELSE IF <<articleId, entityId>> \in tx.db.Junction[k] THEN tx
  ELSE IF ~foreignKeysHold(tx.db, k, articleId, entityId) THEN Violate(tx)
  ELSE Exec(tx, [tx.db EXCEPT !.Junction[k] = @ \cup {<<articleId, entityId>>}])

\* a clear that deletes nothing, so that an update merges instead of replacing
clearArticleRelationsKeeping(tx, k, articleId) ==
  IF tx.threw THEN tx ELSE Exec(tx, tx.db)

\* DELETE FROM junction WHERE articleId = ?
clearArticleRelations(tx, k, articleId) ==
  IF tx.threw THEN tx
  ELSE Exec(tx, [tx.db EXCEPT
                   !.Junction[k] = {r \in @ : r[1] # articleId}])

\* names.forEach(name => link(getOrCreate(name)))
RECURSIVE linkNames(_, _, _, _)
linkNames(tx, k, articleId, names) ==
  IF names = <<>> THEN tx
  ELSE LET e == getOrCreateEntity(tx, k, Head(names))
       IN  linkNames(linkArticleEntity(e.tx, k, articleId, e.id),
                     k, articleId, Tail(names))

\* an allocator that derives the next value from the articles present
getAndIncrementFromArticles(d) ==
  LET used == {castInteger(i) : i \in ArticleIds(d)}
      top  == IF used = {} THEN 0 ELSE CHOOSE n \in used : \A m \in used : m <= n
  IN  [db |-> [d EXCEPT !.IdCounter = <<top + 2>>], value |-> top + 1]

\* the counter transaction: read nextId, store nextId + 1, return the old one
getAndIncrement(d) ==
  IF d.IdCounter = <<>>
  THEN [db |-> [d EXCEPT !.IdCounter = <<2>>], value |-> 1]
  ELSE [db |-> [d EXCEPT !.IdCounter = <<@[1] + 1>>], value |-> d.IdCounter[1]]

getNextArticleId(d) ==
  LET r == getAndIncrement(d)
  IN  [db |-> r.db, id |-> padStart(NumberToString(r.value), 4, "0")]

(***************************************************************************)
(* File names and paths.                                                   *)
(***************************************************************************)
LowerCase == {"a", "b", "c", "d", "e", "f", "g", "h", "i", "j", "k", "l", "m",
              "n", "o", "p", "q", "r", "s", "t", "u", "v", "w", "x", "y", "z"}

UpperCase == {"A", "B", "C", "D", "E", "F", "G", "H", "I", "J", "K", "L", "M",
              "N", "O", "P", "Q", "R", "S", "T", "U", "V", "W", "X", "Y", "Z"}

\* [<>:"/\|?*]
ForbiddenChars == {"<", ">", ":", "\"", "/", "\\", "|", "?", "*"}

\* [a-zA-Z0-9 ]
IsAlnumOrSpace(c) == c \in LowerCase \cup UpperCase \cup {" "} \/ IsDigit(c)

maxLength == 200

ReplaceForbidden(c) == IF c \in ForbiddenChars THEN "-" ELSE c

ReplaceUnderscore(c) == IF c = "_" THEN " " ELSE c

\* the two String.replace calls, character by character
replaceChars(title) ==
  [i \in 1..Len(title) |-> ReplaceUnderscore(ReplaceForbidden(title[i]))]

makeName(id, title) ==
  LET cleanTitle == trim(replaceChars(title))
      baseName   == id \o <<" ", "-", " ">> \o cleanTitle
  IN  IF Len(baseName) > maxLength
      THEN trim(substring(baseName, 0, maxLength))
      ELSE baseName

fileNameLength == 50

\* the fileName column written by articles:create
createFileName(id, title) ==
  id \o <<" ", "-", " ">>
     \o SelectSeq(substring(title, 0, fileNameLength), IsAlnumOrSpace)

\* a path is <<root, subdirectory, file name>>; the extension is the last
\* element of the file name
PdfExt == ".pdf"

NoteExt == ".docx"

StorageRoot == "storage"

Path(root, subdir, name) == <<root, subdir, name>>

existsSync(f, p) == p \in DOMAIN f

unlinkSync(f, p) == [q \in DOMAIN f \ {p} |-> f[q]]

writeFileSync(f, p, bytes) == [q \in DOMAIN f \cup {p} |-> IF q = p THEN bytes ELSE f[q]]

unlinkIfExists(f, p) == IF existsSync(f, p) THEN unlinkSync(f, p) ELSE f

\* JavaScript truthiness of a TEXT column and of an INTEGER column
TruthyText(x) == x # NULL /\ x # ""

TruthyInt(x) == x # 0

\* a resolver that follows the storagePath column of the settings row
getStorageRootFromSettings(d) ==
  IF d.UserSettings # <<>> /\ TruthyText(d.UserSettings[1].storagePath)
  THEN d.UserSettings[1].storagePath
  ELSE StorageRoot

\* getStorageRoot / StoragePaths.root: decided by app.isPackaged alone, never
\* by the database d; StorageRoot is the root of the mode the run is in
getStorageRoot(d) == StorageRoot

(***************************************************************************)
(* articles.ts                                                             *)
(***************************************************************************)
KindOrder == <<"authors", "keywords", "subjects", "tags", "universities", "companies">>

Has(formData, field) == field \in DOMAIN formData

OrEmpty(formData, field) == IF Has(formData, field) THEN formData[field] ELSE <<>>

\* x || undefined
OrUndefined(x) == IF x = "" THEN UNDEFINED ELSE x

\* the rows of kind k joined to the article
Related(d, k, id) ==
  {[id |-> r[2], name |-> d.Entity[k][r[2]]] :
     r \in {j \in d.Junction[k] : j[1] = id /\ j[2] \in DOMAIN d.Entity[k]}}

NotFound == [found |-> FALSE]

getArticleWithRelations(d, id) ==
  IF id \notin ArticleIds(d) THEN NotFound
  ELSE LET article == d.Article[id]
       IN  [found     |-> TRUE,
            id        |-> article.id,
            title     |-> article.title,
            abstract  |-> article.abstract,
            journal   |-> OrUndefined(article.journal),
            read      |-> article.read = 1,
            fileName  |-> article.fileName,
            updatedAt |-> article.updatedAt,
            relations |-> [k \in Kinds |-> Related(d, k, id)]]

RelatedNames(d, k, id) == {e.name : e \in Related(d, k, id)}

\* the duplicate query: an article with this title joined to an author whose
\* name is IN the payload's list
duplicateCheck(d, formData) ==
  \E id \in ArticleIds(d) :
     /\ d.Article[id].title = formData.title
     /\ RelatedNames(d, "authors", id) \cap Range(formData.authors) # {}

insertArticle(tx, nextId, formData, now) ==
  IF nextId \in ArticleIds(tx.db) \/ ~Has(formData, "abstract")
  THEN Violate(tx)
  ELSE Exec(tx, [tx.db EXCEPT !.Article =
         [i \in DOMAIN @ \cup {nextId} |->
            IF i = nextId
            THEN [id        |-> nextId,
                  title     |-> formData.title,
                  abstract  |-> formData.abstract,
                  journal   |-> IF Has(formData, "journal") THEN formData.journal ELSE "",
                  read      |-> IF Has(formData, "read") /\ formData.read THEN 1 ELSE 0,
                  fileName  |-> createFileName(nextId, formData.title),
                  updatedAt |-> now]
            ELSE @[i]]])

RECURSIVE createLinks(_, _, _, _)
createLinks(tx, nextId, formData, i) ==
  IF i > Len(KindOrder) THEN tx
  ELSE createLinks(linkNames(tx, KindOrder[i], nextId, OrEmpty(formData, KindOrder[i])),
                   nextId, formData, i + 1)

\* a create transaction that links the authors and nothing else
createArticleAuthorsOnly(d, nextId, formData, now, fault) ==
  linkNames(insertArticle(Begin(d, fault), nextId, formData, now),
            "authors", nextId, OrEmpty(formData, "authors"))

\* the body of the createArticle transaction
createArticle(d, nextId, formData, now, fault) ==
  createLinks(insertArticle(Begin(d, fault), nextId, formData, now),
              nextId, formData, 1)

\* an UPDATE that writes the create-time default into every absent field
updateStmtDefaulting(tx, id, formData, now) ==
  IF tx.threw THEN tx
  ELSE IF id \notin ArticleIds(tx.db) THEN Exec(tx, tx.db)
  ELSE Exec(tx, [tx.db EXCEPT !.Article[id] =
         [title     |-> IF Has(formData, "title") THEN formData.title ELSE @.title,
          abstract  |-> IF Has(formData, "abstract") THEN formData.abstract ELSE @.abstract,
          journal   |-> IF Has(formData, "journal") THEN formData.journal ELSE "",
          read      |-> IF Has(formData, "read") /\ formData.read THEN 1 ELSE 0,
          id        |-> @.id,
          fileName  |-> @.fileName,
          updatedAt |-> now]])

\* UPDATE Article SET <provided fields>, updatedAt = datetime('now') WHERE id = ?
updateStmt(tx, id, formData, now) ==
  IF tx.threw THEN tx
  ELSE IF id \notin ArticleIds(tx.db) THEN Exec(tx, tx.db)
  ELSE Exec(tx, [tx.db EXCEPT !.Article[id] =
         [title     |-> IF Has(formData, "title") THEN formData.title ELSE @.title,
          abstract  |-> IF Has(formData, "abstract") THEN formData.abstract ELSE @.abstract,
          journal   |-> IF Has(formData, "journal") THEN formData.journal ELSE @.journal,
          read      |-> IF Has(formData, "read")
                        THEN (IF formData.read THEN 1 ELSE 0) ELSE @.read,
          id        |-> @.id,
          fileName  |-> @.fileName,
          updatedAt |-> now]])

RECURSIVE updateLinks(_, _, _, _)
updateLinks(tx, id, formData, i) ==
  IF i > Len(KindOrder) THEN tx
  ELSE updateLinks(
         IF Has(formData, KindOrder[i])
         THEN linkNames(clearArticleRelations(tx, KindOrder[i], id),
                        KindOrder[i], id, formData[KindOrder[i]])
         ELSE tx,
         id, formData, i + 1)

\* the body of the updateArticle transaction
updateArticle(d, id, formData, now, fault) ==
  updateLinks(updateStmt(Begin(d, fault), id, formData, now), id, formData, 1)

\* a DELETE without the cascade
deleteStmtNoCascade(d, id) ==
  [d EXCEPT !.Article = [i \in DOMAIN @ \ {id} |-> @[i]]]

\* DELETE FROM Article WHERE id = ?, with ON DELETE CASCADE on the junctions
deleteStmt(d, id) ==
  [d EXCEPT !.Article  = [i \in DOMAIN @ \ {id} |-> @[i]],
            !.Junction = [k \in Kinds |-> {r \in @[k] : r[1] # id}]]

\* the external mirror as the handlers read it: SELECT ... LIMIT 1
externalSettings(d) ==
  IF d.UserSettings = <<>> THEN [enabled |-> FALSE, path |-> ""]
  ELSE [enabled |-> TruthyInt(d.UserSettings[1].useExternalStorage),
        path    |-> IF TruthyText(d.UserSettings[1].externalStoragePath)
                    THEN d.UserSettings[1].externalStoragePath ELSE ""]

\* the files articles:delete removes
deleteFiles(f, d, id) ==
  LET f1 == unlinkIfExists(f, Path(getStorageRoot(d), "pdfs", id \o <<PdfExt>>))
      f2 == unlinkIfExists(f1, Path(getStorageRoot(d), "notes", id \o <<NoteExt>>))
      ext == externalSettings(d)
  IN  IF ext.enabled /\ ext.path # ""
      THEN unlinkIfExists(
             unlinkIfExists(f2, Path(ext.path, "pdfs", id \o <<PdfExt>>)),
             Path(ext.path, "notes", id \o <<NoteExt>>))
      ELSE f2

\* what the last handler call was and how it ended: outcome is "returned" or
\* "threw", writes is the number of statements its transaction had executed
Outcome(op, id, formData, outcome, error, result, writes) ==
  [op |-> op, id |-> id, formData |-> formData, outcome |-> outcome,
   error |-> error, result |-> result, writes |-> writes]

NoId == <<>>

DuplicateError == "Article already exists with same title and authors"

NoData == <<>>

ArticlesCreate(formData, fault) ==
  /\ clock < MaxClock
  /\ clock' = clock + 1
  /\ calls' = calls
  /\ fs' = fs
  /\ IF ~Has(formData, "authors")
     THEN /\ db' = db
          /\ returned' = returned
          /\ last' = Outcome("create", NoId, formData, "threw", "TypeError", NotFound, 0)
     ELSE IF duplicateCheck(db, formData)
     THEN /\ db' = db
          /\ returned' = returned
          /\ last' = Outcome("create", NoId, formData, "threw",
                             DuplicateError, NotFound, 0)
     ELSE LET next == getNextArticleId(db)
              tx   == createArticle(next.db, next.id, formData, clock', fault)
          IN  /\ db' = Commit(next.db, tx)
              /\ IF tx.threw
                 THEN /\ returned' = returned
                      /\ last' = Outcome("create", next.id, formData, "threw",
                                         tx.error, NotFound, tx.writes)
                 ELSE /\ returned' = Append(returned, next.id)
                      /\ last' = Outcome("create", next.id, formData, "returned", "",
                                         getArticleWithRelations(db', next.id), tx.writes)

ArticlesUpdate(id, formData, fault) ==
  /\ clock < MaxClock
  /\ clock' = clock + 1
  /\ calls' = calls
  /\ fs' = fs
  /\ returned' = returned
  /\ LET tx == updateArticle(db, id, formData, clock', fault)
     IN  /\ db' = Commit(db, tx)
         /\ last' = IF tx.threw
                    THEN Outcome("update", id, formData, "threw", tx.error, NotFound, tx.writes)
                    ELSE Outcome("update", id, formData, "returned", "",
                                 getArticleWithRelations(db', id), tx.writes)

ArticlesDelete(id) ==
  /\ clock < MaxClock
  /\ clock' = clock + 1
  /\ calls' = calls
  /\ returned' = returned
  /\ fs' = deleteFiles(fs, db, id)
  /\ db' = deleteStmt(db, id)
  /\ last' = Outcome("delete", id, NoData, "returned", "", NotFound, 0)

(***************************************************************************)
(* files.ts and storage.ts                                                 *)
(***************************************************************************)
\* what can go wrong while mirroring: nothing, the SELECT of the mirror
\* settings throws, or fs.copyFileSync throws
MirrorModes == {"ok", "settingsFail", "copyFails"}

SettingsError == "Error getting external storage settings"

MirrorError == "Error copying to external storage"

\* settings that report the mirror enabled whatever the stored flag says
getExternalStorageSettingsIgnoringFlag(d, mirror) ==
  IF mirror = "settingsFail" THEN [enabled |-> FALSE, path |-> ""]
  ELSE [enabled |-> TRUE, path |-> externalSettings(d).path]

\* getExternalStorageSettings: the settings, or disabled when the read throws
getExternalStorageSettings(d, mirror) ==
  IF mirror = "settingsFail" THEN [enabled |-> FALSE, path |-> ""]
  ELSE externalSettings(d)

\* a mirror step that lets the copy error escape
copyToExternalIfEnabledRethrowing(f, d, internalPath, subdir, fileName, mirror) ==
  LET external == getExternalStorageSettings(d, mirror)
  IN  IF ~external.enabled \/ external.path = ""
      THEN [fs |-> f, threw |-> FALSE,
            logged |-> IF mirror = "settingsFail" THEN SettingsError ELSE ""]
      ELSE IF mirror = "copyFails"
      THEN [fs |-> f, threw |-> TRUE, logged |-> MirrorError]
      ELSE [fs |-> writeFileSync(f, Path(external.path, subdir, fileName),
                                 f[internalPath]),
            threw |-> FALSE, logged |-> ""]

\* fs.copyFileSync to the mirror, skipped when mirroring is off; every error
\* is caught and logged, so threw stays FALSE
copyToExternalIfEnabled(f, d, internalPath, subdir, fileName, mirror) ==
  LET external == getExternalStorageSettings(d, mirror)
  IN  IF ~external.enabled \/ external.path = ""
      THEN [fs |-> f, threw |-> FALSE,
            logged |-> IF mirror = "settingsFail" THEN SettingsError ELSE ""]
      ELSE IF mirror = "copyFails"
      THEN [fs |-> f, threw |-> FALSE, logged |-> MirrorError]
      ELSE [fs |-> writeFileSync(f, Path(external.path, subdir, fileName),
                                 f[internalPath]),
            threw |-> FALSE, logged |-> ""]

\* SELECT title FROM Article WHERE id = ?, then result?.title || null
getArticleTitle(d, articleId) ==
  IF articleId \notin ArticleIds(d) THEN [isNull |-> TRUE, title |-> <<>>]
  ELSE IF d.Article[articleId].title = <<>> THEN [isNull |-> TRUE, title |-> <<>>]
  ELSE [isNull |-> FALSE, title |-> d.Article[articleId].title]

NoPath == <<>>

\* the current name first, then the bare-id name
findFile(f, d, subdir, ext, articleId) ==
  LET title   == getArticleTitle(d, articleId)
      newPath == Path(getStorageRoot(d), subdir, makeName(articleId, title.title) \o <<ext>>)
      oldPath == Path(getStorageRoot(d), subdir, articleId \o <<ext>>)
  IN  IF ~title.isNull /\ existsSync(f, newPath) THEN newPath
      ELSE IF existsSync(f, oldPath) THEN oldPath
      ELSE NoPath

findPdfFile(f, d, articleId) == findFile(f, d, "pdfs", PdfExt, articleId)

findNoteFile(f, d, articleId) == findFile(f, d, "notes", NoteExt, articleId)

\* the document createReport renders from the article
prepareTemplateData(article) == <<"note of", article.id, article.title>>

\* last.error of a file handler that returned is what it logged on the way
FilesUploadPdf(articleId, articleTitle, fileBuffer, mirror) ==
  LET pdfFileName == makeName(articleId, articleTitle) \o <<PdfExt>>
      pdfPath     == Path(getStorageRoot(db), "pdfs", pdfFileName)
      saved       == writeFileSync(fs, pdfPath, fileBuffer)
      copied      == copyToExternalIfEnabled(saved, db, pdfPath, "pdfs",
                                             pdfFileName, mirror)
  IN  /\ clock < MaxClock
      /\ clock' = clock + 1
      /\ calls' = calls
      /\ db' = db
      /\ returned' = returned
      /\ fs' = copied.fs
      /\ last' = Outcome("uploadPdf", articleId,
                         [title |-> articleTitle, bytes |-> fileBuffer],
                         IF copied.threw THEN "threw" ELSE "returned",
                         copied.logged,
                         IF copied.threw THEN NoPath ELSE pdfFileName, 0)

FilesGenerateNote(article, mirror) ==
  LET noteFileName == makeName(article.id, article.title) \o <<NoteExt>>
      notePath     == Path(getStorageRoot(db), "notes", noteFileName)
      buffer       == prepareTemplateData(article)
      saved        == writeFileSync(unlinkIfExists(fs, notePath), notePath, buffer)
      copied       == copyToExternalIfEnabled(saved, db, notePath, "notes",
                                              noteFileName, mirror)
  IN  /\ clock < MaxClock
      /\ clock' = clock + 1
      /\ calls' = calls
      /\ db' = db
      /\ returned' = returned
      /\ fs' = copied.fs
      /\ last' = Outcome("generateNote", article.id,
                         [title |-> article.title, bytes |-> buffer],
                         IF copied.threw THEN "threw" ELSE "returned",
                         copied.logged,
                         IF copied.threw THEN NoPath ELSE noteFileName, 0)

\* storage:updateExternalSettings: update the row, or insert it
StorageUpdateExternalSettings(settings) ==
  /\ clock < MaxClock
  /\ clock' = clock + 1
  /\ calls' = calls
  /\ fs' = fs
  /\ returned' = returned
  /\ db' = IF db.UserSettings # <<>>
           THEN [db EXCEPT
                   !.UserSettings[1].externalStoragePath = settings.externalStoragePath,
                   !.UserSettings[1].useExternalStorage =
                      IF settings.useExternalStorage THEN 1 ELSE 0]
           ELSE [db EXCEPT !.UserSettings =
                   Append(@, [theme               |-> "light",
                              externalStoragePath |-> settings.externalStoragePath,
                              useExternalStorage  |->
                                 IF settings.useExternalStorage THEN 1 ELSE 0,
                              storagePath         |-> NULL])]
  /\ last' = Outcome("updateExternalSettings", NoId, settings, "returned", "", NotFound, 0)

(***************************************************************************)
(* storage:copyToExternal and storage:migrate copy the pdfs and notes      *)
(* trees.  A copy is threaded through a record c: the files, the number of *)
(* copyFileSync calls made, the call that fails (0 for none), and the      *)
(* count of files copied.  Directories are flat, as the handlers write     *)
(* them.                                                                   *)
(***************************************************************************)
BeginCopy(f, fault) ==
  [fs |-> f, copies |-> 0, fault |-> fault, threw |-> FALSE, copiedCount |-> 0]

\* fs.readdirSync: the names in one directory
readdirSync(f, root, subdir) ==
  {p[3] : p \in {q \in DOMAIN f : q[1] = root /\ q[2] = subdir}}

\* the orders in which readdirSync may list a set of names
Orderings(names) ==
  {o \in [1..Cardinality(names) -> names] :
     \A i, j \in 1..Cardinality(names) : o[i] = o[j] => i = j}

\* fs.copyFileSync: the destination gets the source's bytes, or the call throws
copyFileSync(c, srcFile, destFile) ==
  IF c.copies + 1 = c.fault
  THEN [c EXCEPT !.copies = @ + 1, !.threw = TRUE]
  ELSE [c EXCEPT !.copies = @ + 1,
                 !.fs = writeFileSync(c.fs, destFile, c.fs[srcFile])]

\* a copy step that overwrites what the destination holds
copyIfAbsentOverwriting(c, srcFile, destFile) ==
  IF c.threw THEN c
  ELSE LET copied == copyFileSync(c, srcFile, destFile)
       IN  IF copied.threw THEN copied
           ELSE [copied EXCEPT !.copiedCount = @ + 1]

\* the file branch of storage:copyToExternal: copy only when absent
copyIfAbsent(c, srcFile, destFile) ==
  IF c.threw \/ existsSync(c.fs, destFile) THEN c
  ELSE LET copied == copyFileSync(c, srcFile, destFile)
       IN  IF copied.threw THEN copied
           ELSE [copied EXCEPT !.copiedCount = @ + 1]

\* the file branch of storage:migrate: copy always
copyOver(c, srcFile, destFile) ==
  IF c.threw THEN c ELSE copyFileSync(c, srcFile, destFile)

\* copyDirectory of storage:copyToExternal over one listing
RECURSIVE copyDirectory(_, _, _, _, _)
copyDirectory(c, files, src, dest, subdir) ==
  IF files = <<>> THEN c
  ELSE copyDirectory(copyIfAbsent(c, Path(src, subdir, Head(files)),
                                  Path(dest, subdir, Head(files))),
                     Tail(files), src, dest, subdir)

\* copyDirectory of storage:migrate over one listing
RECURSIVE copyDirectoryOver(_, _, _, _, _)
copyDirectoryOver(c, files, src, dest, subdir) ==
  IF files = <<>> THEN c
  ELSE copyDirectoryOver(copyOver(c, Path(src, subdir, Head(files)),
                                  Path(dest, subdir, Head(files))),
                         Tail(files), src, dest, subdir)

CopyError == "Copy failed"

MigrationError == "Migration failed"

\* pdfs and notes are the listings readdirSync gave for the two directories
StorageCopyToExternal(externalPath, pdfs, notes, fault) ==
  LET c == copyDirectory(
             copyDirectory(BeginCopy(fs, fault), pdfs, getStorageRoot(db), externalPath, "pdfs"),
             notes, getStorageRoot(db), externalPath, "notes")
  IN  /\ clock < MaxClock
      /\ clock' = clock + 1
      /\ calls' = calls
      /\ db' = db
      /\ returned' = returned
      /\ fs' = c.fs
      /\ last' = IF c.threw
                 THEN Outcome("copyToExternal", NoId, [path |-> externalPath],
                              "threw", CopyError, NotFound, 0)
                 ELSE Outcome("copyToExternal", NoId, [path |-> externalPath],
                              "returned", "",
                              [success |-> TRUE, copiedCount |-> c.copiedCount], 0)

\* the database file of the running library; the library itself is the
\* variable db, so a copy of the file is a file with the bytes DatabaseBytes
DatabaseFile == <<"articles", ".db">>

DatabaseBytes == "db"

\* copyDirectory over the database directory, which holds the one file
copyDatabase(c, dest) ==
  IF c.copies + 1 = c.fault
  THEN [c EXCEPT !.copies = @ + 1, !.threw = TRUE]
  ELSE [c EXCEPT !.copies = @ + 1,
                 !.fs = writeFileSync(c.fs, Path(dest, "database", DatabaseFile),
                                      DatabaseBytes)]

\* storage:migrate: copy database, pdfs and notes, then record the new path
StorageMigrate(newPath, pdfs, notes, fault) ==
  LET c == copyDirectoryOver(
             copyDirectoryOver(copyDatabase(BeginCopy(fs, fault), newPath),
                               pdfs, getStorageRoot(db), newPath, "pdfs"),
             notes, getStorageRoot(db), newPath, "notes")
  IN  /\ clock < MaxClock
      /\ clock' = clock + 1
      /\ calls' = calls
      /\ returned' = returned
      /\ fs' = c.fs
      /\ IF c.threw
         THEN /\ db' = db
              /\ last' = Outcome("migrate", NoId, [path |-> newPath],
                                 "threw", MigrationError, NotFound, 0)
         ELSE /\ db' = IF db.UserSettings # <<>>
                       THEN [db EXCEPT !.UserSettings[1].storagePath = newPath]
                       ELSE [db EXCEPT !.UserSettings =
                               Append(@, [theme               |-> "light",
                                          externalStoragePath |-> NULL,
                                          useExternalStorage  |-> 0,
                                          storagePath         |-> newPath])]
              /\ last' = Outcome("migrate", NoId, [path |-> newPath],
                                 "returned", "", [success |-> TRUE], 0)

(***************************************************************************)
(* settings:get and settings:update; theme stands for the four preference  *)
(* columns, which the handlers treat alike.                                *)
(***************************************************************************)
DefaultSettings ==
  [theme |-> "light", externalStoragePath |-> NULL, useExternalStorage |-> 0,
   storagePath |-> NULL]

\* a read that inserts the default row whether or not one exists
settingsGetStmtAlwaysInserting(d) ==
  [d EXCEPT !.UserSettings = Append(@, DefaultSettings)]

\* SELECT * FROM UserSettings LIMIT 1, with the INSERT of the defaults when
\* there is no row
settingsGetStmt(d) ==
  IF d.UserSettings # <<>> THEN d
  ELSE [d EXCEPT !.UserSettings = Append(@, DefaultSettings)]

SettingsGet ==
  /\ clock < MaxClock
  /\ clock' = clock + 1
  /\ calls' = calls
  /\ fs' = fs
  /\ returned' = returned
  /\ db' = settingsGetStmt(db)
  /\ last' = Outcome("settingsGet", NoId, NoData, "returned", "",
                     db'.UserSettings[1], 0)

SettingsUpdate(newSettings) ==
  /\ clock < MaxClock
  /\ clock' = clock + 1
  /\ calls' = calls
  /\ fs' = fs
  /\ returned' = returned
  /\ db' = IF db.UserSettings # <<>>
           THEN IF Has(newSettings, "theme")
                THEN [db EXCEPT !.UserSettings[1].theme = newSettings.theme]
                ELSE db
           ELSE [db EXCEPT !.UserSettings =
                   Append(@, [DefaultSettings EXCEPT
                                !.theme = IF Has(newSettings, "theme")
                                             /\ newSettings.theme # ""
                                          THEN newSettings.theme ELSE "light"])]
  /\ last' = Outcome("settingsUpdate", NoId, newSettings, "returned", "",
                     db'.UserSettings[1], 0)

(***************************************************************************)
(* files:migrateFileNames renames bare-id files to the titled scheme.  The *)
(* run is threaded through a record m: the files, the number of renameSync *)
(* calls made, the call that fails (0 for none), the counts and errors.    *)
(***************************************************************************)
BeginMigration(f, fault) ==
  [fs |-> f, renames |-> 0, fault |-> fault, threw |-> FALSE,
   migratedPdfs |-> 0, migratedNotes |-> 0, errors |-> <<>>]

\* a rename that leaves the old name in place as well
renameSyncCopying(m, oldPath, newPath) ==
  IF m.renames + 1 = m.fault
  THEN [m EXCEPT !.renames = @ + 1, !.threw = TRUE]
  ELSE [m EXCEPT !.renames = @ + 1,
                 !.fs = writeFileSync(m.fs, newPath, m.fs[oldPath])]

\* fs.renameSync: the file moves to the new name, or the call throws
renameSync(m, oldPath, newPath) ==
  IF m.renames + 1 = m.fault
  THEN [m EXCEPT !.renames = @ + 1, !.threw = TRUE]
  ELSE [m EXCEPT !.renames = @ + 1,
                 !.fs = unlinkSync(writeFileSync(m.fs, newPath, m.fs[oldPath]),
                                   oldPath)]

\* the external half of one migration, reached after the primary rename
migrateExternal(m, d, subdir, oldName, newName) ==
  LET external == getExternalStorageSettings(d, "ok")
      extOld   == Path(external.path, subdir, oldName)
      extNew   == Path(external.path, subdir, newName)
  IN  IF external.enabled /\ external.path # "" /\ existsSync(m.fs, extOld)
      THEN renameSync([m EXCEPT !.fs = unlinkIfExists(m.fs, extNew)], extOld, extNew)
      ELSE m

\* one try block of the loop: the PDF or the note of one article
migrateFile(m, d, id, subdir, ext) ==
  LET oldName == id \o <<ext>>
      newName == makeName(id, d.Article[id].title) \o <<ext>>
      oldPath == Path(getStorageRoot(d), subdir, oldName)
      newPath == Path(getStorageRoot(d), subdir, newName)
      failed(n) == [n EXCEPT !.threw = FALSE,
                             !.errors = Append(@, [subdir |-> subdir, id |-> id])]
  IN  IF existsSync(m.fs, oldPath) /\ oldName # newName
      THEN LET moved == renameSync([m EXCEPT !.fs = unlinkIfExists(m.fs, newPath)],
                                   oldPath, newPath)
               counted == IF subdir = "pdfs"
                          THEN [moved EXCEPT !.migratedPdfs = @ + 1]
                          ELSE [moved EXCEPT !.migratedNotes = @ + 1]
               mirrored == migrateExternal(counted, d, subdir, oldName, newName)
           IN  IF moved.threw THEN failed(moved)
               ELSE IF mirrored.threw THEN failed(mirrored)
               ELSE mirrored
      ELSE m

\* the loop over SELECT id, title FROM Article, in row order
RECURSIVE migrateArticles(_, _, _)
migrateArticles(m, d, ids) ==
  IF ids = {} THEN m
  ELSE LET id == CHOOSE i \in ids : \A j \in ids : castInteger(i) <= castInteger(j)
       IN  migrateArticles(
             migrateFile(migrateFile(m, d, id, "pdfs", PdfExt), d, id, "notes", NoteExt),
             d, ids \ {id})

FilesMigrateFileNames(fault) ==
  LET m == migrateArticles(BeginMigration(fs, fault), db, ArticleIds(db))
  IN  /\ clock < MaxClock
      /\ clock' = clock + 1
      /\ calls' = calls
      /\ db' = db
      /\ returned' = returned
      /\ fs' = m.fs
      /\ last' = Outcome("migrateFileNames", NoId, NoData, "returned", "",
                         [success |-> TRUE, migratedPdfs |-> m.migratedPdfs,
                          migratedNotes |-> m.migratedNotes,
                          totalArticles |-> Cardinality(ArticleIds(db)),
                          errors |-> m.errors], 0)

(***************************************************************************)
(* Start-up: initializeDatabase seeds the counter row when it is missing.  *)
(***************************************************************************)
\* SELECT id FROM Article ORDER BY CAST(id AS INTEGER) DESC LIMIT 1
lastArticleIds(d) ==
  {i \in ArticleIds(d) : \A j \in ArticleIds(d) : castInteger(j) <= castInteger(i)}

\* seedFails: the INSERT of the counter row throws; the catch block logs it
initializeDatabase(d, lastId, seedFails) ==
  IF d.IdCounter # <<>> THEN d
  ELSE IF seedFails THEN d
  ELSE IF ArticleIds(d) = {} THEN [d EXCEPT !.IdCounter = <<1>>]
  ELSE IF parseInt(lastId) < 0 THEN d
  ELSE [d EXCEPT !.IdCounter = <<parseInt(lastId) + 1>>]

(***************************************************************************)
(* Inputs.                                                                 *)
(***************************************************************************)
TitleA == <<"a">>

TitleB == <<"b", ":">>

Names == {"n1", "n2"}

AuthorLists == {<<>>, <<"n1">>, <<"n1", "n2">>, <<"n2", "n1">>}

BaseForm(title, authors) ==
  [title |-> title, abstract |-> "x", read |-> FALSE, authors |-> authors]

With(formData, field, value) ==
  [f \in DOMAIN formData \cup {field} |-> IF f = field THEN value ELSE formData[f]]

Without(formData, field) == [f \in DOMAIN formData \ {field} |-> formData[f]]

CreateForms ==
  {BaseForm(TitleA, a) : a \in AuthorLists}
    \cup {BaseForm(TitleB, <<"n1">>),
          Without(BaseForm(TitleA, <<"n1">>), "abstract"),
          Without(BaseForm(TitleA, <<"n1">>), "authors"),
          [title |-> TitleB, abstract |-> "x", journal |-> "J", read |-> TRUE,
           authors |-> <<"n2">>, keywords |-> <<"n1", "n2", "n1">>, subjects |-> <<"n1">>,
           tags |-> <<"n1">>, universities |-> <<"n1">>, companies |-> <<"n1">>]}

EmptyForm == <<>>

UpdateForms ==
  {EmptyForm, [title |-> TitleB, journal |-> "J"], [abstract |-> "y", read |-> TRUE],
   [authors |-> <<>>]}
    \cup {With(EmptyForm, k, IF k = "tags" THEN <<"n2", "n2">> ELSE <<"n2">>) :
            k \in Kinds}

Faults == 0..MaxFault

\* an identifier no article carries
MissingId == <<"9", "9", "9", "9">>

(***************************************************************************)
(* The article repository.                                                 *)
(***************************************************************************)
Init ==
  /\ db = initializeDatabase(EmptyDb, NoId, FALSE)
  /\ fs = <<>>
  /\ clock = 0
  /\ calls = NoCalls
  /\ returned = <<>>
  /\ last = Outcome("init", NoId, NoData, "returned", "", NotFound, 0)

Create ==
  /\ IF db.IdCounter = <<>> THEN TRUE ELSE db.IdCounter[1] <= MaxId
  /\ \E formData \in CreateForms, fault \in Faults : ArticlesCreate(formData, fault)

Update ==
  \E id \in ArticleIds(db) \cup {MissingId}, formData \in UpdateForms, fault \in Faults :
     ArticlesUpdate(id, formData, fault)

Delete == \E id \in ArticleIds(db) \cup {MissingId} : ArticlesDelete(id)

Next == Create \/ Update \/ Delete

Spec == Init /\ [][Next]_vars

(***************************************************************************)
(* The file storage manager, started on a fresh library or on a library    *)
(* that an earlier version left behind: bare-id file names, no counter row.*)
(***************************************************************************)
Bytes == {"b1", "b2"}

LegacyBytes == "b0"

ExternalRoot == "external"

FirstId == <<"0", "0", "0", "1">>

LegacyDb ==
  [EmptyDb EXCEPT
     !.Article  = [i \in {FirstId} |->
                     [id |-> FirstId, title |-> TitleB, abstract |-> "x",
                      journal |-> "", read |-> 0, fileName |-> FirstId,
                      updatedAt |-> 0]],
     !.Entity   = [k \in Kinds |-> IF k = "authors" THEN <<"n1">> ELSE <<>>],
     !.Junction = [k \in Kinds |-> IF k = "authors" THEN {<<FirstId, 1>>} ELSE {}]]

MirroredDb ==
  [LegacyDb EXCEPT
     !.UserSettings = <<[theme               |-> "light",
                         externalStoragePath |-> ExternalRoot,
                         useExternalStorage  |-> 1,
                         storagePath         |-> NULL]>>]

LegacyFiles(roots) ==
  [p \in {Path(r, "pdfs", FirstId \o <<PdfExt>>) : r \in roots}
           \cup {Path(r, "notes", FirstId \o <<NoteExt>>) : r \in roots}
     |-> LegacyBytes]

Libraries ==
  {[db |-> EmptyDb, fs |-> <<>>],
   [db |-> LegacyDb, fs |-> LegacyFiles({StorageRoot})],
   [db |-> MirroredDb, fs |-> LegacyFiles({StorageRoot, ExternalRoot})]}

InitFiles ==
  /\ \E lib \in Libraries :
        /\ \E lastId \in lastArticleIds(lib.db) \cup {NoId} :
              /\ lastId = NoId <=> ArticleIds(lib.db) = {}
              /\ db = initializeDatabase(lib.db, lastId, FALSE)
        /\ fs = lib.fs
  /\ clock = 0
  /\ calls = NoCalls
  /\ returned = <<>>
  /\ last = Outcome("init", NoId, NoData, "returned", "", NotFound, 0)

FileTitles == {<<>>, TitleA, TitleB}

CreateTitled ==
  /\ IF db.IdCounter = <<>> THEN TRUE ELSE db.IdCounter[1] <= MaxId
  /\ \E t \in FileTitles : ArticlesCreate(BaseForm(t, <<"n2">>), 0)

Retitle ==
  \E id \in ArticleIds(db), t \in FileTitles \ {<<>>} : ArticlesUpdate(id, [title |-> t], 0)

UploadPdf ==
  \E id \in ArticleIds(db) \cup {MissingId}, t \in FileTitles, b \in Bytes :
     FilesUploadPdf(id, t, b, "ok")

GenerateNote ==
  \E id \in ArticleIds(db) : FilesGenerateNote(getArticleWithRelations(db, id), "ok")

UpdateExternalSettings ==
  \E path \in {"", ExternalRoot}, use \in BOOLEAN :
     StorageUpdateExternalSettings([externalStoragePath |-> path,
                                    useExternalStorage  |-> use])

NextFiles ==
  \/ CreateTitled
  \/ Retitle
  \/ Delete
  \/ UploadPdf
  \/ GenerateNote
  \/ UpdateExternalSettings

SpecFiles == InitFiles /\ [][NextFiles]_vars

(***************************************************************************)
(* The mirror: stores whose mirroring can fail, the mirror settings, and   *)
(* the file-name migration, over the same libraries.                       *)
(***************************************************************************)
UploadPdfMirrored ==
  \E id \in ArticleIds(db), t \in FileTitles \ {<<>>}, b \in Bytes,
     mirror \in MirrorModes :
     FilesUploadPdf(id, t, b, mirror)

MigrateFileNames == \E fault \in Faults : FilesMigrateFileNames(fault)

NextMirror ==
  \/ UploadPdfMirrored
  \/ UpdateExternalSettings
  \/ MigrateFileNames

SpecMirror == InitFiles /\ [][NextMirror]_vars

(***************************************************************************)
(* Start-up on libraries that have no counter row yet, followed by the     *)
(* repository operations.                                                  *)
(***************************************************************************)
ImportedId == <<"P", "1">>

\* one article whose identifier carries no number
ImportedDb ==
  [EmptyDb EXCEPT
     !.Article = [i \in {ImportedId} |->
                    [id |-> ImportedId, title |-> TitleB, abstract |-> "x",
                     journal |-> "", read |-> 0, fileName |-> ImportedId,
                     updatedAt |-> 0]]]

SecondId == <<"0", "0", "0", "2">>

\* one article, numbered 2: the first article of the library was deleted
\* before the counter table existed
SparseDb ==
  [EmptyDb EXCEPT
     !.Article = [i \in {SecondId} |->
                    [id |-> SecondId, title |-> TitleB, abstract |-> "x",
                     journal |-> "", read |-> 0, fileName |-> SecondId,
                     updatedAt |-> 0]]]

CounterLibraries == {EmptyDb, LegacyDb, ImportedDb, SparseDb}

InitStartup ==
  /\ \E lib \in CounterLibraries, seedFails \in BOOLEAN :
        \E lastId \in lastArticleIds(lib) \cup {NoId} :
           /\ lastId = NoId <=> ArticleIds(lib) = {}
           /\ db = initializeDatabase(lib, lastId, seedFails)
  /\ fs = <<>>
  /\ clock = 0
  /\ calls = NoCalls
  /\ returned = <<>>
  /\ last = Outcome("init", NoId, NoData, "returned", "", NotFound, 0)

NextStartup ==
  \/ Create
  \/ Delete

SpecStartup == InitStartup /\ [][NextStartup]_vars

(***************************************************************************)
(* Storage management: tree copies, relocation and the settings row, with  *)
(* stores in between.                                                      *)
(***************************************************************************)
NewRoot == "relocated"

CopyToExternal ==
  \E pdfs \in Orderings(readdirSync(fs, StorageRoot, "pdfs")),
     notes \in Orderings(readdirSync(fs, StorageRoot, "notes")),
     fault \in Faults :
     StorageCopyToExternal(ExternalRoot, pdfs, notes, fault)

Migrate ==
  \E pdfs \in Orderings(readdirSync(fs, StorageRoot, "pdfs")),
     notes \in Orderings(readdirSync(fs, StorageRoot, "notes")),
     fault \in Faults :
     StorageMigrate(NewRoot, pdfs, notes, fault)

GetSettings == SettingsGet

UpdateSettings ==
  \E newSettings \in {EmptyForm, [theme |-> "dark"]} : SettingsUpdate(newSettings)

NextStorage ==
  \/ UploadPdfMirrored
  \/ UpdateExternalSettings
  \/ CopyToExternal
  \/ Migrate
  \/ GetSettings
  \/ UpdateSettings

SpecStorage == InitFiles /\ [][NextStorage]_vars

(***************************************************************************)
(* Two connections calling getOrCreateEntity.                              *)
(***************************************************************************)
RaceSelect ==
  \E c \in Callers, k \in Kinds, name \in Names : EntitySelect(c, k, name)

RaceInsert == \E c \in Callers : EntityInsert(c)

RaceReturn == \E c \in Callers : EntityReturn(c)

NextRace ==
  \/ RaceSelect
  \/ RaceInsert
  \/ RaceReturn

SpecRace == Init /\ [][NextRace]_vars

(***************************************************************************)
(* Properties.                                                             *)
(***************************************************************************)
\* C1: the identifiers returned by successful creates are strictly increasing
\* in numeric value, so none is returned twice, also after deletes
C1_IdsStrictlyIncreasing ==
  \A i, j \in DOMAIN returned :
     i < j => parseInt(returned[i]) < parseInt(returned[j])

\* a create succeeded after an article with an earlier identifier was deleted
C1_Witness ==
  /\ last.op = "create" /\ last.outcome = "returned"
  /\ Len(returned) >= 2
  /\ returned[1] \notin ArticleIds(db)

\* C2: a create whose title and author-name set equal those of an existing
\* article throws the duplicate error and creates nothing, for every author set
C2_DuplicateRejected ==
  [][(/\ last'.op = "create"
      /\ Has(last'.formData, "authors")
      /\ \E id \in ArticleIds(db) :
            /\ db.Article[id].title = last'.formData.title
            /\ RelatedNames(db, "authors", id) = Range(last'.formData.authors))
     => (/\ last'.outcome = "threw"
         /\ last'.error = DuplicateError
         /\ db'.Article = db.Article)]_vars

\* the files of the article under the given roots: the bare-id names and the
\* current names "{id} - {title}" of its PDF and of its note
FilesOfArticle(f, roots, id, title) ==
  {p \in DOMAIN f :
     /\ p[1] \in roots
     /\ \/ p[2] = "pdfs" /\ p[3] \in {id \o <<PdfExt>>, makeName(id, title) \o <<PdfExt>>}
        \/ p[2] = "notes" /\ p[3] \in {id \o <<NoteExt>>, makeName(id, title) \o <<NoteExt>>}}

MirrorRoots(d) ==
  IF externalSettings(d).enabled /\ externalSettings(d).path # ""
  THEN {externalSettings(d).path} ELSE {}

\* C3: after the delete of an existing article, get(id) is not-found and no
\* PDF or note of the article remains, under the current name or the bare-id
\* name, at the primary location or at the enabled mirror
C3_DeleteRemovesFiles ==
  [][(last'.op = "delete" /\ last'.id \in ArticleIds(db))
     => (/\ ~getArticleWithRelations(db', last'.id).found
         /\ FilesOfArticle(fs', {StorageRoot} \cup MirrorRoots(db), last'.id,
                           db.Article[last'.id].title) = {})]_vars

\* C4: after store(pdf, id, title, bytes) for an existing article, called with
\* the article's own title, locate(pdf, id) is a path whose content is bytes
C4_StoreThenLocate ==
  (/\ last.op = "uploadPdf"
   /\ last.id \in ArticleIds(db)
   /\ last.formData.title = db.Article[last.id].title)
  => (/\ findPdfFile(fs, db, last.id) # NoPath
      /\ fs[findPdfFile(fs, db, last.id)] = last.formData.bytes)

\* get(id) without its last-update timestamp
WithoutTimestamp(article) == [article EXCEPT !.updatedAt = 0]

\* C5: a successful update of an existing article leaves every scalar field
\* and every entity kind absent from the payload as it was, and leaves the
\* other articles alone; with the empty payload get(id) changes only in its
\* last-update timestamp
C5_UpdateFrame ==
  [][(/\ last'.op = "update"
      /\ last'.outcome = "returned"
      /\ last'.id \in ArticleIds(db))
     => (/\ \A f \in (ScalarFields \cup {"id", "fileName"}) \ DOMAIN last'.formData :
               db'.Article[last'.id][f] = db.Article[last'.id][f]
         /\ \A k \in Kinds \ DOMAIN last'.formData :
               Related(db', k, last'.id) = Related(db, k, last'.id)
         /\ \A other \in ArticleIds(db) \ {last'.id} :
               getArticleWithRelations(db', other) = getArticleWithRelations(db, other)
         /\ last'.formData = EmptyForm =>
               WithoutTimestamp(getArticleWithRelations(db', last'.id))
                 = WithoutTimestamp(getArticleWithRelations(db, last'.id)))]_vars

\* an update with the empty payload succeeded on an article that has links,
\* a journal and the read flag, and refreshed its timestamp
C5_Witness ==
  /\ last.op = "update" /\ last.outcome = "returned" /\ last.formData = EmptyForm
  /\ last.result.found
  /\ last.result.journal = "J" /\ last.result.read
  /\ \A k \in Kinds : last.result.relations[k] # {}
  /\ last.result.updatedAt = clock

\* C6: after a successful update whose payload carries entity kind k, the
\* names linked to the article under k are exactly the names of the payload
C6_ReplaceLinks ==
  (last.op = "update" /\ last.outcome = "returned" /\ last.result.found)
  => \A k \in Kinds \cap DOMAIN last.formData :
        /\ {e.name : e \in last.result.relations[k]} = Range(last.formData[k])
        /\ RelatedNames(db, k, last.id) = Range(last.formData[k])

\* the only article ever created was linked to keyword n1, and an update
\* with keywords [n2] left it linked to n2 alone
C6_Witness ==
  /\ last.op = "update" /\ last.outcome = "returned" /\ last.result.found
  /\ Has(last.formData, "keywords") /\ last.formData.keywords = <<"n2">>
  /\ Len(returned) = 1
  /\ "n1" \in Range(db.Entity["keywords"])
  /\ RelatedNames(db, "keywords", last.id) = {"n2"}

\* C7: a delete leaves no junction row of the article in any of the six
\* junction relations and removes no entity row
C7_DeleteCascade ==
  [][last'.op = "delete"
     => (/\ \A k \in Kinds : \A r \in db'.Junction[k] : r[1] # last'.id
         /\ db'.Entity = db.Entity)]_vars

\* the only article ever created, which had author links, has been deleted
C7_Witness ==
  /\ last.op = "delete"
  /\ returned = <<last.id>>
  /\ last.id \notin ArticleIds(db)
  /\ db.Entity["authors"] # <<>>
  /\ db.Entity["keywords"] # <<>>

\* C8: unless the store itself fails, an update of an id that matches no
\* article ends with the not-found outcome, not with a generic error, for
\* every payload, and leaves the store unchanged
C8_UpdateMissingIsNotFound ==
  [][(/\ last'.op = "update"
      /\ last'.id \notin ArticleIds(db)
      /\ last'.error # IoError)
     => (/\ last'.outcome = "returned"
         /\ ~last'.result.found
         /\ db' = db)]_vars

\* C9: a create that fails leaves the IdCounter value as it was
C9_FailedCreateKeepsCounter ==
  [][(last'.op = "create" /\ last'.outcome = "threw")
     => db'.IdCounter = db.IdCounter]_vars

\* C10: a create or update that throws leaves the Article rows, the six
\* junction relations and the six entity tables as they were
C10_Atomic ==
  [][(last'.op \in {"create", "update"} /\ last'.outcome = "threw")
     => (/\ db'.Article = db.Article
         /\ db'.Junction = db.Junction
         /\ db'.Entity = db.Entity)]_vars

\* a create threw after its transaction had inserted the article row
C10_Witness ==
  /\ last.op = "create" /\ last.outcome = "threw"
  /\ last.writes >= 1

\* C11: with mirroring disabled a store writes the file under the primary
\* root and leaves every path outside it as it was; with mirroring enabled
\* (and the copy not failing) the primary file holds the stored bytes and
\* the external file equals the primary file
C11_MirrorFrame ==
  [][last'.op = "uploadPdf"
     => LET name    == makeName(last'.id, last'.formData.title) \o <<PdfExt>>
            primary == Path(StorageRoot, "pdfs", name)
        IN  /\ existsSync(fs', primary) /\ fs'[primary] = last'.formData.bytes
            /\ MirrorRoots(db) = {} =>
                  /\ {p \in DOMAIN fs' : p[1] # StorageRoot}
                       = {p \in DOMAIN fs : p[1] # StorageRoot}
                  /\ \A p \in DOMAIN fs : p[1] # StorageRoot => fs'[p] = fs[p]
            /\ (MirrorRoots(db) # {} /\ last'.error = "") =>
                  \A r \in MirrorRoots(db) :
                     /\ existsSync(fs', Path(r, "pdfs", name))
                     /\ fs'[Path(r, "pdfs", name)] = fs'[primary]]_vars

\* the mirror was switched on by a settings call, and a PDF stored for the
\* first article is now at the external location with the primary's bytes
C11_Witness ==
  /\ last.op = "uploadPdf" /\ last.outcome = "returned" /\ last.id = FirstId
  /\ last.id \in ArticleIds(db)
  /\ MirrorRoots(db) = {ExternalRoot}
  /\ ~existsSync(fs, Path(ExternalRoot, "pdfs", FirstId \o <<PdfExt>>))
  /\ existsSync(fs, Path(ExternalRoot, "pdfs", last.result))
  /\ fs[Path(ExternalRoot, "pdfs", last.result)] = fs[Path(StorageRoot, "pdfs", last.result)]

\* C12: a store whose mirror copy fails, or whose read of the mirror
\* settings fails, still returns the stored file name and leaves the primary
\* file in place
C12_MirrorFailureSwallowed ==
  (last.op = "uploadPdf" /\ last.error \in {MirrorError, SettingsError})
  => (/\ last.outcome = "returned"
      /\ last.result = makeName(last.id, last.formData.title) \o <<PdfExt>>
      /\ existsSync(fs, Path(StorageRoot, "pdfs", last.result))
      /\ fs[Path(StorageRoot, "pdfs", last.result)] = last.formData.bytes)

\* a store on a mirrored library whose copy to the mirror failed
C12_Witness ==
  /\ last.op = "uploadPdf" /\ last.error = MirrorError
  /\ MirrorRoots(db) = {ExternalRoot}
  /\ ~existsSync(fs, Path(ExternalRoot, "pdfs", last.result))

\* C13: a migration run that directly follows a migration run which
\* reported no errors migrates no PDF and no note
C13_SecondRunMigratesNothing ==
  [][(/\ last.op = "migrateFileNames" /\ last.result.errors = <<>>
      /\ last'.op = "migrateFileNames")
     => (last'.result.migratedPdfs = 0 /\ last'.result.migratedNotes = 0)]_vars

\* two runs in a row on a library that started with bare-id files: the
\* titled file holds the old bytes, and the second run counted nothing
C13_Witness ==
  /\ clock = 2 /\ last.op = "migrateFileNames"
  /\ last.result.migratedPdfs = 0 /\ last.result.migratedNotes = 0
  /\ last.result.errors = <<>>
  /\ FirstId \in ArticleIds(db)
  /\ LET name == makeName(FirstId, db.Article[FirstId].title) \o <<PdfExt>>
     IN  /\ existsSync(fs, Path(StorageRoot, "pdfs", name))
         /\ fs[Path(StorageRoot, "pdfs", name)] = LegacyBytes
         /\ ~existsSync(fs, Path(StorageRoot, "pdfs", FirstId \o <<PdfExt>>))

\* C14: after a migration run that reported no errors, with mirroring
\* enabled, no article has a bare-id PDF or note left at the primary or at
\* the external location
C14_NoLegacyLeft ==
  (/\ last.op = "migrateFileNames" /\ last.result.errors = <<>>
   /\ MirrorRoots(db) # {})
  => \A id \in ArticleIds(db), r \in {StorageRoot} \cup MirrorRoots(db) :
        /\ ~existsSync(fs, Path(r, "pdfs", id \o <<PdfExt>>))
        /\ ~existsSync(fs, Path(r, "notes", id \o <<NoteExt>>))

\* the highest numeric value among the article identifiers, 0 without articles
MaxNumericId(d) ==
  LET used == {castInteger(i) : i \in ArticleIds(d)} \cup {0}
  IN  CHOOSE n \in used : \A m \in used : m <= n

\* C15: a counter row seeded at start-up holds one more than the highest
\* numeric article identifier (1 without articles), and a create that finds
\* no counter row hands out one more than the highest numeric identifier
C15_FirstIdFollowsArticles ==
  /\ db.IdCounter \in {<<>>, <<MaxNumericId(db) + 1>>}
  /\ [][(db.IdCounter = <<>> /\ last'.op = "create" /\ last'.id # NoId)
        => parseInt(last'.id) = MaxNumericId(db) + 1]_vars

\* C16: within each entity kind no two rows carry the same name;
\* getOrCreateEntity returns the row of a name that is present without
\* writing, inserts exactly one row for a name that is absent, and a second
\* call with the same name returns the same id and writes nothing
C16_EntityNamesUnique ==
  \A k \in Kinds :
     /\ \A i, j \in DOMAIN db.Entity[k] : db.Entity[k][i] = db.Entity[k][j] => i = j
     /\ \A name \in Names :
          LET first  == getOrCreateEntity(Begin(db, 0), k, name)
              second == getOrCreateEntity(first.tx, k, name)
          IN  /\ first.tx.db.Entity[k][first.id] = name
              /\ second.id = first.id
              /\ second.tx.db = first.tx.db
              /\ IF \E i \in DOMAIN db.Entity[k] : db.Entity[k][i] = name
                 THEN first.tx.db = db
                 ELSE first.tx.db.Entity[k] = Append(db.Entity[k], name)

\* two articles are linked to one and the same entity row
C16_Witness ==
  \E k \in Kinds : \E r1, r2 \in db.Junction[k] :
     /\ r1[1] # r2[1] /\ r1[2] = r2[2]
     /\ Len(db.Entity[k]) >= 2

\* some entity array of the payload names one entity twice
RepeatsName(formData) ==
  \E k \in DOMAIN formData \cap Kinds :
     Cardinality(Range(formData[k])) < Len(formData[k])

\* C17: a create or update whose payload repeats a name in an entity array
\* raises no error (store failures, the duplicate rejection and updates of
\* unknown ids aside) and leaves one junction row per distinct name
C17_RepeatedNameLinkedOnce ==
  [][(/\ last'.op \in {"create", "update"}
      /\ RepeatsName(last'.formData)
      /\ last'.error \notin {IoError, DuplicateError}
      /\ last'.op = "update" => last'.id \in ArticleIds(db))
     => (/\ last'.outcome = "returned"
         /\ \A k \in DOMAIN last'.formData \cap Kinds :
               Cardinality({r \in db'.Junction[k] : r[1] = last'.id})
                 = Cardinality(Range(last'.formData[k])))]_vars

\* an update whose tag list named n2 twice returned with a single tag link
C17_Witness ==
  /\ last.op = "update" /\ last.outcome = "returned"
  /\ Has(last.formData, "tags") /\ last.formData.tags = <<"n2", "n2">>
  /\ Cardinality({r \in db.Junction["tags"] : r[1] = last.id}) = 1

\* C18: every junction row references an article row and an entity row that
\* exist
C18_ReferentialIntegrity ==
  \A k \in Kinds : \A r \in db.Junction[k] :
     r[1] \in ArticleIds(db) /\ r[2] \in DOMAIN db.Entity[k]

\* an update that tried to link entities to an unknown article was refused,
\* and the links of the articles that exist are in place
C18_Witness ==
  /\ last.op = "update" /\ last.outcome = "threw" /\ last.error = ConstraintError
  /\ last.id \notin ArticleIds(db)
  /\ \E k \in Kinds : Has(last.formData, k) /\ last.formData[k] # <<>>
  /\ \E id \in ArticleIds(db) : \E r \in db.Junction["authors"] : r[1] = id

\* C19: a successful create returns what getArticleWithRelations gives for
\* the new id, and for each kind the names linked to the new article are the
\* names of the payload's array
C19_CreateReturnsArticle ==
  (last.op = "create" /\ last.outcome = "returned")
  => (/\ last.result.found
      /\ last.result = getArticleWithRelations(db, last.id)
      /\ \A k \in Kinds :
            /\ RelatedNames(db, k, last.id) = Range(OrEmpty(last.formData, k))
            /\ {e.name : e \in last.result.relations[k]}
                 = Range(OrEmpty(last.formData, k)))

\* a create whose payload filled all six entity arrays has returned
C19_Witness ==
  /\ last.op = "create" /\ last.outcome = "returned"
  /\ \A k \in Kinds : Has(last.formData, k) /\ last.formData[k] # <<>>
  /\ RelatedNames(db, "keywords", last.id) = {"n1", "n2"}

\* C20: for every id, with or without an article row, and for PDFs and
\* notes alike, locate returns the current-named path when that file exists,
\* otherwise the bare-id path when that file exists, otherwise not-found
C20_LocateOrder ==
  \A id \in ArticleIds(db) \cup {MissingId, FirstId} :
     \A kind \in {[subdir |-> "pdfs", ext |-> PdfExt],
                  [subdir |-> "notes", ext |-> NoteExt]} :
        LET legacy   == Path(StorageRoot, kind.subdir, id \o <<kind.ext>>)
            current  == Path(StorageRoot, kind.subdir,
                             makeName(id, db.Article[id].title) \o <<kind.ext>>)
            expected == IF id \in ArticleIds(db) /\ existsSync(fs, current)
                        THEN current
                        ELSE IF existsSync(fs, legacy) THEN legacy
                        ELSE NoPath
        IN  findFile(fs, db, kind.subdir, kind.ext, id) = expected

\* the files of the pdfs and notes trees under the primary root
SourceFiles(f) == {p \in DOMAIN f : p[1] = StorageRoot /\ p[2] \in {"pdfs", "notes"}}

\* C21: a tree copy returns a report even when one copy fails, and every
\* source file but the failing one is at the destination afterwards
C21_BulkCopyContinues ==
  [][last'.op \in {"copyToExternal", "migrate"}
     => (/\ last'.outcome = "returned"
         /\ Cardinality({p \in SourceFiles(fs) :
                           ~existsSync(fs', Path(last'.formData.path, p[2], p[3]))})
              <= 1)]_vars

\* C22: storage:copyToExternal leaves every file that was at the destination,
\* and every file elsewhere, as it was; what it adds are source files that
\* were absent there, with the source's bytes; when it returns, all absent
\* files have been added and copiedCount is their number
C22_CopySkipsExisting ==
  [][last'.op = "copyToExternal"
     => LET dest   == last'.formData.path
            absent == {p \in SourceFiles(fs) : ~existsSync(fs, Path(dest, p[2], p[3]))}
        IN  /\ \A p \in DOMAIN fs : existsSync(fs', p) /\ fs'[p] = fs[p]
            /\ \A q \in DOMAIN fs' \ DOMAIN fs :
                  \E p \in absent : q = Path(dest, p[2], p[3]) /\ fs'[q] = fs[p]
            /\ last'.outcome = "returned" =>
                  /\ last'.result.copiedCount = Cardinality(absent)
                  /\ \A p \in absent : existsSync(fs', Path(dest, p[2], p[3]))]_vars

\* a copy has returned while a destination file differs from its source
C22_Witness ==
  /\ last.op = "copyToExternal" /\ last.outcome = "returned"
  /\ \E p \in SourceFiles(fs) :
        /\ existsSync(fs, Path(ExternalRoot, p[2], p[3]))
        /\ fs[Path(ExternalRoot, p[2], p[3])] # fs[p]

\* C23: UserSettings never holds more than one row, and no handler removes
\* the row: each step leaves the row count as it was or takes it from 0 to 1
C23_SingleSettingsRow ==
  /\ Len(db.UserSettings) <= 1
  /\ [][/\ Len(db'.UserSettings) <= 1
        /\ Len(db'.UserSettings) >= Len(db.UserSettings)]_vars

\* the row that the relocation inserted was then updated in place
C23_Witness ==
  /\ last.op = "settingsUpdate"
  /\ Len(db.UserSettings) = 1
  /\ db.UserSettings[1].theme = "dark"
  /\ db.UserSettings[1].storagePath = NewRoot
  /\ db.UserSettings[1].externalStoragePath = NULL

C26_FileNameIsBaseName ==
  (last.op = "create" /\ last.outcome = "returned")
  => db.Article[last.id].fileName = makeName(last.id, last.formData.title)

\* C27: whenever the counter row exists its nextId is greater than the
\* numeric value of every article identifier in the store, and no step
\* lowers nextId
C27_CounterAboveArticles ==
  /\ [](IF db.IdCounter = <<>> THEN TRUE
        ELSE \A id \in ArticleIds(db) : castInteger(id) < db.IdCounter[1])
  /\ [][IF db.IdCounter = <<>> THEN TRUE
        ELSE db'.IdCounter # <<>> /\ db'.IdCounter[1] >= db.IdCounter[1]]_vars

\* C28: a PDF stored under the article's title is still what locate gives
\* after an update that changes the title: the path found has the bytes that
\* the stored file had
C28_LocateSurvivesRetitle ==
  [][(/\ last'.op = "update" /\ last'.outcome = "returned"
      /\ last'.id \in ArticleIds(db)
      /\ Has(last'.formData, "title")
      /\ last'.formData.title # db.Article[last'.id].title
      /\ findPdfFile(fs, db, last'.id)
           = Path(StorageRoot, "pdfs",
                  makeName(last'.id, db.Article[last'.id].title) \o <<PdfExt>>))
     => (/\ findPdfFile(fs', db', last'.id) # NoPath
         /\ fs'[findPdfFile(fs', db', last'.id)] = fs[findPdfFile(fs, db, last'.id)])]_vars

\* C29: files:migrateFileNames leaves the content that locate gives for
\* every article's PDF and note as it was; in particular a current-named
\* file keeps its bytes when a bare-id file exists next to it
C29_MigrationKeepsContent ==
  [][last'.op = "migrateFileNames"
     => \A id \in ArticleIds(db) :
           /\ findPdfFile(fs, db, id) # NoPath
                => (/\ findPdfFile(fs', db', id) # NoPath
                    /\ fs'[findPdfFile(fs', db', id)] = fs[findPdfFile(fs, db, id)])
           /\ findNoteFile(fs, db, id) # NoPath
                => (/\ findNoteFile(fs', db', id) # NoPath
                    /\ fs'[findNoteFile(fs', db', id)] = fs[findNoteFile(fs, db, id)])]_vars

\* C30: articles:create refuses a payload as a duplicate only when an
\* article has the payload's title and exactly its set of author names: with
\* the same title and a different author set, even one sharing an author, the
\* call does not end with the duplicate error
C30_DuplicateNeedsSameAuthors ==
  [][(/\ last'.op = "create"
      /\ Has(last'.formData, "authors")
      /\ Has(last'.formData, "title")
      /\ ~ \E id \in ArticleIds(db) :
              /\ db.Article[id].title = last'.formData.title
              /\ RelatedNames(db, "authors", id) = Range(last'.formData.authors))
     => last'.error # DuplicateError]_vars

====
